---- MODULE Spec2Model ----
(***************************************************************************)
(* A model of orm_demo.py: the PostgreSQL store behind one SQLAlchemy ORM  *)
(* session, and main() driving populate_sample_data and the demonstration  *)
(* functions over it.                                                      *)
(*                                                                         *)
(* Money is held in cents (price 1299.99 is 129999); a line total and the  *)
(* Python running total are held in hundredths of a cent, so that          *)
(* qty * price * (1 - discount/100) is the integer qty*cents*(100-disc).   *)
(* NULL is 0: ids come from sequences that start at 1.                     *)
(***************************************************************************)
EXTENDS Integers, Sequences, FiniteSets, TLC

NULL == 0

(***************************************************************************)
(* Sample data of populate_sample_data.                                    *)
(***************************************************************************)
ManufacturerData ==
    << [name |-> "TechCorp Industries"],
       [name |-> "EuroElectronics GmbH"],
       [name |-> "AsiaManufacturing Ltd"],
       [name |-> "Nordic Components"],
       [name |-> "Pacific Goods Co"] >>

\* parentIx is the position in this list of the Category object whose
\* category_id the constructor call reads (electronics), or NULL.
CategoryData ==
    << [name |-> "Electronics",   parentIx |-> NULL],
       [name |-> "Computers",     parentIx |-> 1],
       [name |-> "Peripherals",   parentIx |-> 1],
       [name |-> "Audio",         parentIx |-> 1],
       [name |-> "Home & Garden", parentIx |-> NULL],
       [name |-> "Furniture",     parentIx |-> NULL] >>

\* mfg is the hard-coded manufacturer_id; catIx the position in CategoryData
\* of the Category object whose category_id is read.
ProductData ==
    << [sku |-> "TECH-LAP-001", price |-> 129999, qty |-> 45,  mfg |-> 1,    catIx |-> 2],
       [sku |-> "TECH-MOU-001", price |-> 4999,   qty |-> 200, mfg |-> 1,    catIx |-> 3],
       [sku |-> "EURO-KEY-001", price |-> 15999,  qty |-> 75,  mfg |-> 2,    catIx |-> 3],
       [sku |-> "ASIA-AUD-001", price |-> 29999,  qty |-> 30,  mfg |-> 3,    catIx |-> 4],
       [sku |-> "ASIA-HUB-001", price |-> 7999,   qty |-> 150, mfg |-> 3,    catIx |-> 3],
       [sku |-> "NORD-DSK-001", price |-> 59999,  qty |-> 20,  mfg |-> 4,    catIx |-> 6],
       [sku |-> "NORD-ARM-001", price |-> 12999,  qty |-> 60,  mfg |-> 4,    catIx |-> 3],
       [sku |-> "TECH-CAM-001", price |-> 19999,  qty |-> 85,  mfg |-> 1,    catIx |-> 3],
       [sku |-> "PACI-SPK-001", price |-> 8999,   qty |-> 0,   mfg |-> 5,    catIx |-> 4],
       [sku |-> "PACI-MOU-001", price |-> 999,    qty |-> 500, mfg |-> 5,    catIx |-> 3],
       [sku |-> "ORPH-001",     price |-> 1999,   qty |-> 10,  mfg |-> NULL, catIx |-> 3] >>

\* items: <<product_id, qty, price, discount>>
orders_data ==
    << [customer |-> "Alice Johnson", status |-> "delivered",
        items |-> << <<1, 1, 129999, 0>>, <<2, 1, 4999, 0>>, <<3, 1, 15999, 0>> >>],
       [customer |-> "Bob Smith", status |-> "shipped",
        items |-> << <<4, 1, 29999, 0>>, <<5, 1, 7999, 10>> >>],
       [customer |-> "Carol White", status |-> "processing",
        items |-> << <<6, 1, 59999, 0>> >>],
       [customer |-> "David Brown", status |-> "pending",
        items |-> << <<3, 1, 15999, 0>>, <<10, 2, 999, 0>> >>],
       [customer |-> "Eve Davis", status |-> "cancelled",
        items |-> << <<4, 1, 29999, 0>> >>] >>

(***************************************************************************)
(* The store: five tables, each a set of rows.                             *)
(***************************************************************************)
Tables == {"manufacturers", "categories", "products", "orders", "order_items"}

EmptyDb == [t \in Tables |-> {}]

Ids(d, tbl) == {r.id : r \in d[tbl]}

Row(d, tbl, id) == CHOOSE r \in d[tbl] : r.id = id

VARIABLES
    db,         \* committed rows
    tx,         \* rows as the open transaction sees them
    txOpen,     \* a transaction is open on the session's connection
    seq,        \* the tables' id sequences (never rolled back)
    dbAtBegin,  \* committed rows when the open (or last) transaction began
    new,        \* session.new: pending objects in the order they were added
    dirty,      \* modified persistent objects awaiting their UPDATE
    ident,      \* primary keys the flushes have given the session's objects
    imap,       \* identity map: entities the session holds, <<table, id>>
    loaded,     \* relationship attributes already loaded on those entities
    sessOpen,   \* session.close() has not run
    log,        \* every statement sent to the store, in order
    pc,         \* main's position
    k,          \* populate: index into orders_data
    j,          \* populate: index into the current order's items
    total,      \* populate: the running total
    roots,      \* the rows the last entity query returned
    i,          \* position of the loop walking roots
    count,      \* updated_count of the bulk update
    mark,       \* Len(log) when the current demonstration began
    err,        \* the exception main is propagating, or "none"
    ops         \* client requests served after main has finished

vars == << db, tx, txOpen, seq, dbAtBegin, new, dirty, ident, imap, loaded,
           sessOpen, log, pc, k, j, total, roots, i, count, mark, err, ops >>

storeVars == << db, tx, txOpen, seq, dbAtBegin >>
sessVars  == << new, dirty, ident, imap, loaded >>
popVars   == << k, j, total >>
demoVars  == << roots, i, count, mark >>

Stmt(op, tbl, id, fk, ok) ==
    [op |-> op, tbl |-> tbl, id |-> id, fk |-> fk, ok |-> ok]

(***************************************************************************)
(* The schema's constraints, as the store checks them on a written row.    *)
(* The result is the violated constraint's name, or "ok".                  *)
(***************************************************************************)
FkOk(d, tbl, id) == id = NULL \/ id \in Ids(d, tbl)

Violation(d, tbl, row) ==
    CASE tbl = "categories" ->
           IF \E r \in d.categories : r.id # row.id /\ r.name = row.name
             THEN "categories_name_key"
           ELSE IF ~FkOk(d, "categories", row.parent)
             THEN "categories_parent_category_id_fkey"
           ELSE "ok"
      [] tbl = "products" ->
           IF \E r \in d.products : r.id # row.id /\ r.sku = row.sku
             THEN "products_sku_key"
           ELSE IF row.price < 0 THEN "check_price_positive"
           ELSE IF row.qty < 0 THEN "check_quantity_positive"
           ELSE IF ~FkOk(d, "manufacturers", row.mfg)
             THEN "products_manufacturer_id_fkey"
           ELSE IF ~FkOk(d, "categories", row.cat)
             THEN "products_category_id_fkey"
           ELSE "ok"
      [] tbl = "order_items" ->
           IF row.order_id = NULL \/ row.product_id = NULL
             THEN "not_null"
           ELSE IF ~FkOk(d, "orders", row.order_id)
             THEN "order_items_order_id_fkey"
           ELSE IF ~FkOk(d, "products", row.product_id)
             THEN "order_items_product_id_fkey"
           ELSE "ok"
      [] OTHER -> "ok"

\* The foreign key an order item's INSERT carries (kept in the log).
FkOf(tbl, row) == IF tbl = "order_items" THEN row.order_id ELSE NULL

(***************************************************************************)
(* Arithmetic of an order's total.                                         *)
(***************************************************************************)
\* qty * price * (1 - discount/100), in hundredths of a cent.
LineAmountNoDiscount(qty, price, discount) == qty * price * 100

LineAmount(qty, price, discount) == qty * price * (100 - discount)

\* A value in hundredths of a cent stored into a NUMERIC(.., 2) column.
RoundCents(x) == (x + 50) \div 100

(***************************************************************************)
(* The session's unit of work.                                             *)
(***************************************************************************)
\* The primary key attribute of a session object: None until a flush has
\* inserted the object.
PkIn(idn, obj) == IF obj \in DOMAIN idn THEN idn[obj] ELSE NULL

\* The mappers in the order a flush saves them: a mapper that another one's
\* relationship() points to is saved first.
MapperOrder == << "manufacturers", "categories", "products", "orders", "order_items" >>

OfMapper(m, s) == SelectSeq(s, LAMBDA e : e.obj[1] = m)

InsertsOf(s) == [n \in 1..Len(s) |-> [op |-> "INSERT", obj |-> s[n].obj, row |-> s[n].row]]

UpdatesOf(s) == [n \in 1..Len(s) |-> [op |-> "UPDATE", obj |-> s[n].obj, total |-> s[n].total]]

RECURSIVE PlanFrom(_, _, _)
PlanFrom(m, nw, dt) ==
    IF m > Len(MapperOrder) THEN << >>
    ELSE UpdatesOf(OfMapper(MapperOrder[m], dt))
           \o InsertsOf(OfMapper(MapperOrder[m], nw))
           \o PlanFrom(m + 1, nw, dt)

\* A flush in the order the program made its changes, without the unit of
\* work's sort.
FlushPlanProgramOrder(nw, dt) == InsertsOf(nw) \o UpdatesOf(dt)

\* The statements a flush sends: mapper by mapper, and for each mapper the
\* UPDATEs of its modified objects before the INSERTs of its new ones.
FlushPlan(nw, dt) == PlanFrom(1, nw, dt)

NoFault == [at |-> 0, kind |-> "none"]

ErrKinds == {"ConstraintViolation", "StoreUnavailable"}

\* The store may fail any one statement of a run of n statements.
Faults(n) == {NoFault} \cup [at : 1..n, kind : ErrKinds]

\* One statement of a flush, sent to the store. acc is the connection's
\* state: [t, seq, ident, log, err].
ExecInsert(st, fault, acc) ==
    LET tbl == st.obj[1]
        id  == acc.seq[tbl] + 1
        row == [id |-> id] @@ st.row
        v   == IF fault # "none" THEN fault
               ELSE IF Violation(acc.t, tbl, row) # "ok" THEN "ConstraintViolation"
               ELSE "none"
    IN [acc EXCEPT
          !.seq[tbl] = id,
          !.t[tbl] = IF v = "none" THEN @ \cup {row} ELSE @,
          !.ident = IF v = "none" THEN (st.obj :> id) @@ @ ELSE @,
          !.log = Append(@, Stmt("INSERT", tbl, id, FkOf(tbl, row), v = "none")),
          !.err = v]

ExecUpdate(st, fault, acc) ==
    LET id  == PkIn(acc.ident, st.obj)
        old == Row(acc.t, "orders", id)
        row == [old EXCEPT !.total = RoundCents(st.total)]
    IN [acc EXCEPT
          !.t["orders"] = IF fault = "none" THEN (@ \ {old}) \cup {row} ELSE @,
          !.log = Append(@, Stmt("UPDATE", "orders", id, NULL, fault = "none")),
          !.err = fault]

RECURSIVE RunPlan(_, _, _, _)
RunPlan(plan, n, f, acc) ==
    IF n > Len(plan) \/ acc.err # "none" THEN acc
    ELSE LET fault == IF f.at = n THEN f.kind ELSE "none"
             nxt   == IF plan[n].op = "INSERT"
                        THEN ExecInsert(plan[n], fault, acc)
                        ELSE ExecUpdate(plan[n], fault, acc)
         IN RunPlan(plan, n + 1, f, nxt)

\* What a transaction leaves in the committed rows when it is rolled back
\* (d: the committed rows, t: the transaction's rows) ...
RollbackKeepsWrites(d, t) == t

Rollback(d, t) == d

\* A commit that loses the transaction's writes.
CommitDiscards(d, t) == d

\* ... and when it commits.
Commit(d, t) == t

\* The transaction the session works in: begun on the first statement after
\* construction, commit or rollback.
CurTx == IF txOpen THEN tx ELSE db

LogBegun == IF txOpen THEN log ELSE Append(log, Stmt("BEGIN", "", NULL, NULL, TRUE))

BaseBegun == IF txOpen THEN dbAtBegin ELSE db

(***************************************************************************)
(* main(): the state after create_database() and Session().                *)
(***************************************************************************)
Init ==
    /\ db = EmptyDb
    /\ tx = EmptyDb
    /\ txOpen = FALSE
    /\ seq = [t \in Tables |-> 0]
    /\ dbAtBegin = EmptyDb
    /\ new = << >>
    /\ dirty = << >>
    /\ ident = << >>
    /\ imap = {}
    /\ loaded = {}
    /\ sessOpen = TRUE
    /\ log = << >>
    /\ pc = "add_manufacturers"
    /\ k = 1
    /\ j = 1
    /\ total = 0
    /\ roots = << >>
    /\ i = 1
    /\ count = 0
    /\ mark = 0
    /\ err = "none"
    /\ ops = << >>

(***************************************************************************)
(* populate_sample_data                                                    *)
(***************************************************************************)
\* A populate_sample_data that never adds the manufacturers to the session.
AddManufacturersSkipped ==
    /\ pc = "add_manufacturers"
    /\ pc' = "add_electronics"
    /\ UNCHANGED << storeVars, sessVars, sessOpen, log, popVars, demoVars, err, ops >>

\* session.add_all(manufacturers)
AddManufacturers ==
    /\ pc = "add_manufacturers"
    /\ new' = new \o [n \in 1..Len(ManufacturerData) |->
                        [obj |-> <<"manufacturers", n>>, row |-> ManufacturerData[n]]]
    /\ pc' = "add_electronics"
    /\ UNCHANGED << storeVars, dirty, ident, imap, loaded, sessOpen, log,
                    popVars, demoVars, err, ops >>

CategoryObject(n) ==
    [obj |-> <<"categories", n>>,
     row |-> [name   |-> CategoryData[n].name,
              parent |-> IF CategoryData[n].parentIx = NULL THEN NULL
                         ELSE PkIn(ident, <<"categories", CategoryData[n].parentIx>>)]]

\* electronics = Category(...); session.add(electronics)
AddElectronics ==
    /\ pc = "add_electronics"
    /\ new' = Append(new, CategoryObject(1))
    /\ pc' = "flush_electronics"
    /\ UNCHANGED << storeVars, dirty, ident, imap, loaded, sessOpen, log,
                    popVars, demoVars, err, ops >>

\* session.flush(): the pending changes are sent inside the session's
\* transaction. A statement the store refuses ends the flush: the session
\* rolls its transaction back and the exception leaves populate_sample_data.
Flush(next) ==
    LET plan == FlushPlan(new, dirty)
    IN \E f \in Faults(Len(plan)) :
         LET res == RunPlan(plan, 1, f,
                            [t |-> CurTx, seq |-> seq, ident |-> ident,
                             log |-> LogBegun, err |-> "none"])
         IN /\ seq' = res.seq
            /\ dbAtBegin' = BaseBegun
            /\ new' = << >>
            /\ dirty' = << >>
            /\ IF res.err = "none"
                 THEN /\ tx' = res.t
                      /\ txOpen' = TRUE
                      /\ db' = db
                      /\ ident' = res.ident
                      /\ imap' = imap \cup {<<o[1], res.ident[o]>> : o \in DOMAIN res.ident}
                      /\ log' = res.log
                      /\ err' = err
                      /\ pc' = next
                 ELSE /\ db' = Rollback(db, res.t)
                      /\ tx' = db'
                      /\ txOpen' = FALSE
                      /\ ident' = << >>
                      /\ imap' = {}
                      /\ log' = Append(res.log, Stmt("ROLLBACK", "", NULL, NULL, TRUE))
                      /\ err' = res.err
                      /\ pc' = "unwind"

\* session.flush()  # Get the ID
FlushElectronics ==
    /\ pc = "flush_electronics"
    /\ Flush("add_categories")
    /\ UNCHANGED << loaded, sessOpen, popVars, demoVars, ops >>

\* computers ... furniture; session.add_all([...])
AddCategories ==
    /\ pc = "add_categories"
    /\ new' = new \o [n \in 1..(Len(CategoryData) - 1) |-> CategoryObject(n + 1)]
    /\ pc' = "flush_categories"
    /\ UNCHANGED << storeVars, dirty, ident, imap, loaded, sessOpen, log,
                    popVars, demoVars, err, ops >>

FlushCategories ==
    /\ pc = "flush_categories"
    /\ Flush("add_products")
    /\ UNCHANGED << loaded, sessOpen, popVars, demoVars, ops >>

ProductObject(n) ==
    [obj |-> <<"products", n>>,
     row |-> [sku   |-> ProductData[n].sku,
              price |-> ProductData[n].price,
              qty   |-> ProductData[n].qty,
              mfg   |-> ProductData[n].mfg,
              cat   |-> PkIn(ident, <<"categories", ProductData[n].catIx>>)]]

\* session.add_all(products)
AddProducts ==
    /\ pc = "add_products"
    /\ new' = new \o [n \in 1..Len(ProductData) |-> ProductObject(n)]
    /\ pc' = "flush_products"
    /\ UNCHANGED << storeVars, dirty, ident, imap, loaded, sessOpen, log,
                    popVars, demoVars, err, ops >>

FlushProducts ==
    /\ pc = "flush_products"
    /\ Flush("order_add")
    /\ UNCHANGED << loaded, sessOpen, popVars, demoVars, ops >>

\* order = Order(...); session.add(order)
OrderAdd ==
    /\ pc = "order_add"
    /\ new' = Append(new, [obj |-> <<"orders", k>>,
                           row |-> [customer |-> orders_data[k].customer,
                                    status   |-> orders_data[k].status,
                                    total    |-> NULL]])
    /\ pc' = "order_flush"
    /\ UNCHANGED << storeVars, dirty, ident, imap, loaded, sessOpen, log,
                    popVars, demoVars, err, ops >>

\* A loop body that goes on without the flush.
OrderFlushSkipped ==
    /\ pc = "order_flush"
    /\ pc' = "item_add"
    /\ j' = 1
    /\ total' = 0
    /\ UNCHANGED << storeVars, sessVars, sessOpen, log, k, demoVars, err, ops >>

\* session.flush(); total = 0
OrderFlush ==
    /\ pc = "order_flush"
    /\ Flush("item_add")
    /\ j' = 1
    /\ total' = 0
    /\ UNCHANGED << loaded, sessOpen, k, demoVars, ops >>

\* The position of order n's m-th item among all the items.
RECURSIVE ItemIx(_, _)
ItemIx(n, m) == IF n = 1 THEN m ELSE Len(orders_data[n - 1].items) + ItemIx(n - 1, m)

\* item = OrderItem(order_id=order.order_id, ...); session.add(item);
\* total += qty * price * (1 - discount/100)
ItemAdd ==
    /\ pc = "item_add"
    /\ LET it == orders_data[k].items[j]
       IN /\ new' = Append(new, [obj |-> <<"order_items", ItemIx(k, j)>>,
                                 row |-> [order_id   |-> PkIn(ident, <<"orders", k>>),
                                          product_id |-> it[1],
                                          qty        |-> it[2],
                                          unit_price |-> it[3],
                                          discount   |-> it[4]]])
          /\ total' = total + LineAmount(it[2], it[3], it[4])
    /\ IF j < Len(orders_data[k].items)
         THEN j' = j + 1 /\ pc' = "item_add"
         ELSE j' = j /\ pc' = "set_total"
    /\ UNCHANGED << storeVars, dirty, ident, imap, loaded, sessOpen, log,
                    k, demoVars, err, ops >>

\* order.total_amount = total, and the for loop's next round
SetTotal ==
    /\ pc = "set_total"
    /\ dirty' = Append(dirty, [obj |-> <<"orders", k>>, total |-> total])
    /\ IF k < Len(orders_data)
         THEN k' = k + 1 /\ pc' = "order_add"
         ELSE k' = k /\ pc' = "commit"
    /\ UNCHANGED << storeVars, new, ident, imap, loaded, sessOpen, log,
                    j, total, demoVars, err, ops >>

\* session.commit(): a flush of what is pending, then COMMIT; the session's
\* objects are expired, and populate_sample_data returns, dropping them.
CommitPopulate ==
    /\ pc = "commit"
    /\ LET plan == FlushPlan(new, dirty)
       IN \E f \in Faults(Len(plan) + 1) :
            LET res == RunPlan(plan, 1, f,
                               [t |-> CurTx, seq |-> seq, ident |-> ident,
                                log |-> LogBegun, err |-> "none"])
                cf  == IF res.err # "none" THEN res.err
                       ELSE IF f.at = Len(plan) + 1 THEN f.kind ELSE "none"
            IN /\ seq' = res.seq
               /\ dbAtBegin' = BaseBegun
               /\ db' = IF cf = "none" THEN Commit(db, res.t) ELSE Rollback(db, res.t)
               /\ log' = IF res.err # "none"
                           THEN Append(res.log, Stmt("ROLLBACK", "", NULL, NULL, TRUE))
                           ELSE Append(res.log, Stmt("COMMIT", "", NULL, NULL, cf = "none"))
               /\ err' = cf
               /\ pc' = IF cf = "none" THEN "q_expensive" ELSE "unwind"
    /\ tx' = db'
    /\ txOpen' = FALSE
    /\ new' = << >>
    /\ dirty' = << >>
    /\ ident' = << >>
    /\ imap' = {}
    /\ mark' = Len(log')
    /\ UNCHANGED << loaded, sessOpen, popVars, roots, i, count, ops >>

(***************************************************************************)
(* Queries and relationship loading.                                       *)
(***************************************************************************)
RECURSIVE SortedSeq(_)
SortedSeq(S) ==
    IF S = {} THEN << >>
    ELSE LET m == CHOOSE x \in S : \A y \in S : x <= y
         IN << m >> \o SortedSeq(S \ {m})

\* .limit(n) on rows in the order the table holds them.
Limit(s, n) == SubSeq(s, 1, IF Len(s) < n THEN Len(s) ELSE n)

StmtsSince == SubSeq(log, mark + 1, Len(log))

NumSelects == Len(SelectSeq(StmtsSince, LAMBDA st : st.op = "SELECT"))

\* A SELECT sent on the session's connection (which begins a transaction if
\* none is open). ids are the entities of tbl the query returns as objects;
\* rs and mk are what roots and mark become when the query succeeds.
Select(tbl, ids, next, rs, mk) ==
    \E fault \in {"none", "StoreUnavailable"} :
      /\ log' = Append(LogBegun, Stmt("SELECT", tbl, NULL, NULL, fault = "none"))
      /\ tx' = CurTx
      /\ txOpen' = TRUE
      /\ dbAtBegin' = BaseBegun
      /\ IF fault = "none"
           THEN /\ imap' = imap \cup {<<tbl, id>> : id \in ids}
                /\ roots' = rs
                /\ i' = 1
                /\ mark' = mk
                /\ pc' = next
                /\ err' = err
           ELSE /\ imap' = imap
                /\ UNCHANGED << roots, i, mark >>
                /\ pc' = "unwind"
                /\ err' = fault
      /\ UNCHANGED << db, seq, new, dirty, ident >>

IsLoaded(obj, rel) == \E e \in loaded : e.obj = obj /\ e.rel = rel

\* The column and the table behind a relationship of Product.
FkValue(d, p, rel) ==
    IF rel = "manufacturer" THEN Row(d, "products", p).mfg ELSE Row(d, "products", p).cat

Target(rel) == IF rel = "manufacturer" THEN "manufacturers" ELSE "categories"

\* Whether reading the to-one relationship rel of product p sends a SELECT:
\* not when the attribute is loaded, not when the foreign key is NULL, and
\* not when the identity map already holds the row's object.
LazyQuery(d, p, rel) ==
    /\ ~IsLoaded(<<"products", p>>, rel)
    /\ FkValue(d, p, rel) # NULL
    /\ <<Target(rel), FkValue(d, p, rel)>> \notin imap

\* Reading product.<rel>: the lazy load, when one is needed.
ReadToOne(p, rel, next, ni) ==
    LET fk == FkValue(CurTx, p, rel)
        e  == [obj |-> <<"products", p>>, rel |-> rel,
               val |-> IF fk = NULL THEN {} ELSE {fk}]
    IN IF LazyQuery(CurTx, p, rel)
         THEN \E fault \in {"none", "StoreUnavailable"} :
                /\ log' = Append(LogBegun, Stmt("SELECT", Target(rel), fk, NULL, fault = "none"))
                /\ tx' = CurTx
                /\ txOpen' = TRUE
                /\ dbAtBegin' = BaseBegun
                /\ IF fault = "none"
                     THEN /\ imap' = imap \cup {<<Target(rel), fk>>}
                          /\ loaded' = loaded \cup {e}
                          /\ pc' = next
                          /\ i' = ni
                          /\ err' = err
                     ELSE /\ UNCHANGED << imap, loaded, i >>
                          /\ pc' = "unwind"
                          /\ err' = fault
                /\ UNCHANGED << db, seq, new, dirty, ident, roots, mark >>
         ELSE /\ loaded' = loaded \cup (IF IsLoaded(<<"products", p>>, rel) THEN {} ELSE {e})
              /\ pc' = next
              /\ i' = ni
              /\ UNCHANGED << storeVars, new, dirty, ident, imap, log, roots, mark, err >>

(***************************************************************************)
(* good_patterns_demo                                                      *)
(***************************************************************************)
Expensive(d, cents) == {r.id : r \in {q \in d.products : q.price > cents}}

\* session.query(Product).filter(Product.price > 100, is_active).all()
QExpensive ==
    /\ pc = "q_expensive"
    /\ Select("products", Expensive(CurTx, 10000), "joined",
              SortedSeq(Expensive(CurTx, 10000)), Len(LogBegun))
    /\ UNCHANGED << loaded, sessOpen, popVars, count, ops >>

\* The rows of products LEFT OUTER JOIN manufacturers with price > 100.
JoinedRows(d) ==
    LET ps == SortedSeq(Expensive(d, 10000))
    IN [n \in 1..Len(ps) |->
          [p |-> ps[n],
           m |-> IF Row(d, "products", ps[n]).mfg \in Ids(d, "manufacturers")
                   THEN Row(d, "products", ps[n]).mfg ELSE NULL]]

\* The root objects of joined rows: one per primary key, first seen first.
RECURSIVE DedupByPk(_, _)
DedupByPk(rows, seen) ==
    IF rows = << >> THEN << >>
    ELSE IF Head(rows).p \in seen THEN DedupByPk(Tail(rows), seen)
    ELSE << Head(rows).p >> \o DedupByPk(Tail(rows), seen \cup {Head(rows).p})

\* A query without the joinedload option leaves manufacturer unloaded.
JoinedEntriesNone(rows) == {}

\* What joinedload(Product.manufacturer) loads from the joined rows.
JoinedEntries(rows) ==
    {[obj |-> <<"products", rows[n].p>>, rel |-> "manufacturer",
      val |-> IF rows[n].m = NULL THEN {} ELSE {rows[n].m}] : n \in 1..Len(rows)}

\* session.query(Product).options(joinedload(Product.manufacturer))
\*        .filter(Product.price > 100).all()
JoinedLoad ==
    /\ pc = "joined"
    /\ LET rows == JoinedRows(CurTx)
       IN /\ Select("products", {rows[n].p : n \in 1..Len(rows)}, "joined_access",
                    DedupByPk(rows, {}), Len(LogBegun))
          /\ loaded' = IF pc' = "unwind" THEN loaded
                       ELSE loaded \cup JoinedEntries(rows)
    /\ UNCHANGED << sessOpen, popVars, count, ops >>

\* for p in products_with_mfg: p.manufacturer.name if p.manufacturer else ...
JoinedAccess ==
    /\ pc = "joined_access"
    /\ i <= Len(roots)
    /\ ReadToOne(roots[i], "manufacturer", "joined_access", i + 1)
    /\ UNCHANGED << sessOpen, popVars, count, ops >>

\* A load that leaves the collections to lazy loading.
SelectInEntriesNone(ms, d) == {}

\* What selectinload(Manufacturer.products) attaches: the related rows
\* grouped by their foreign key.
SelectInEntries(ms, d) ==
    {[obj |-> <<"manufacturers", m>>, rel |-> "products",
      val |-> {r.id : r \in {q \in d.products : q.mfg = m}}] : m \in ms}

\* session.query(Manufacturer).options(selectinload(Manufacturer.products)).all():
\* the roots, then one SELECT ... WHERE manufacturer_id IN (...) for them all.
SelectInLoad ==
    /\ pc = "joined_access"
    /\ i > Len(roots)
    /\ \E fault \in {0, 1, 2} :
         LET ms   == Ids(CurTx, "manufacturers")
             q1   == Append(LogBegun, Stmt("SELECT", "manufacturers", NULL, NULL, fault # 1))
             q2   == IF fault = 1 \/ ms = {} THEN q1
                     ELSE Append(q1, Stmt("SELECT", "products", NULL, NULL, fault # 2))
         IN /\ log' = q2
            /\ tx' = CurTx
            /\ txOpen' = TRUE
            /\ dbAtBegin' = BaseBegun
            /\ IF fault = 0
                 THEN /\ imap' = imap \cup {<<"manufacturers", m>> : m \in ms}
                                      \cup {<<"products", r.id>> : r \in CurTx.products}
                      /\ loaded' = loaded \cup SelectInEntries(ms, CurTx)
                      /\ roots' = SortedSeq(ms)
                      /\ i' = 1
                      /\ mark' = Len(LogBegun)
                      /\ pc' = "selectin_access"
                      /\ err' = err
                 ELSE /\ UNCHANGED << imap, loaded, roots, i, mark >>
                      /\ pc' = "unwind"
                      /\ err' = "StoreUnavailable"
    /\ UNCHANGED << db, seq, new, dirty, ident, sessOpen, popVars, count, ops >>

\* for mfg in manufacturers_with_products: len(mfg.products): a collection
\* that is not loaded is fetched by a SELECT of its own.
SelectInAccess ==
    /\ pc = "selectin_access"
    /\ i <= Len(roots)
    /\ IF IsLoaded(<<"manufacturers", roots[i]>>, "products")
         THEN /\ i' = i + 1
              /\ UNCHANGED << storeVars, sessVars, log, pc, err >>
         ELSE \E fault \in {"none", "StoreUnavailable"} :
                /\ log' = Append(LogBegun, Stmt("SELECT", "products", NULL, roots[i], fault = "none"))
                /\ tx' = CurTx
                /\ txOpen' = TRUE
                /\ dbAtBegin' = BaseBegun
                /\ IF fault = "none"
                     THEN /\ loaded' = loaded \cup SelectInEntries({roots[i]}, CurTx)
                          /\ i' = i + 1
                          /\ UNCHANGED << pc, err >>
                     ELSE /\ UNCHANGED << loaded, i >>
                          /\ pc' = "unwind"
                          /\ err' = fault
                /\ UNCHANGED << db, seq, new, dirty, ident, imap >>
    /\ UNCHANGED << sessOpen, popVars, roots, count, mark, ops >>

\* session.query(Manufacturer.name, func.count(...), func.avg(...))
\*        .outerjoin(Product).group_by(...).all()
QAggregate ==
    /\ pc = "selectin_access"
    /\ i > Len(roots)
    /\ Select("manufacturers", {}, "q_columns", roots, Len(LogBegun))
    /\ UNCHANGED << loaded, sessOpen, popVars, count, ops >>

\* session.query(Product.name, Product.price).filter(...).limit(5).all()
QColumns ==
    /\ pc = "q_columns"
    /\ Select("products", {}, "q_exists", roots, Len(LogBegun))
    /\ UNCHANGED << loaded, sessOpen, popVars, count, ops >>

\* session.query(Manufacturer).filter(has_expensive).all(): the manufacturers
\* with a product over $500
QExists ==
    /\ pc = "q_exists"
    /\ LET ms == {r.mfg : r \in {q \in CurTx.products : q.price > 50000}} \ {NULL}
       IN Select("manufacturers", ms, "bulk_update", SortedSeq(ms), Len(LogBegun))
    /\ UNCHANGED << loaded, sessOpen, popVars, count, ops >>

\* An UPDATE without its WHERE clause.
BulkUpdateRowsAll(d, mfg, delta) ==
    [d EXCEPT !.products = {[r EXCEPT !.qty = @ + delta] : r \in @}]

\* UPDATE products SET quantity_in_stock = quantity_in_stock + delta
\*  WHERE manufacturer_id = mfg
BulkUpdateRows(d, mfg, delta) ==
    [d EXCEPT !.products =
        {IF r.mfg = mfg THEN [r EXCEPT !.qty = @ + delta] ELSE r : r \in @}]

RowCount(d, mfg) == Cardinality({r \in d.products : r.mfg = mfg})

\* updated_count = session.query(Product).filter(Product.manufacturer_id == 1)
\*                        .update({'quantity_in_stock': Product.quantity_in_stock + 10})
BulkUpdate ==
    /\ pc = "bulk_update"
    /\ \E fault \in {"none"} \cup ErrKinds :
         LET after == BulkUpdateRows(CurTx, 1, 10)
             v == IF fault # "none" THEN fault
                  ELSE IF \E r \in after.products : Violation(after, "products", r) # "ok"
                    THEN "ConstraintViolation"
                  ELSE "none"
         IN /\ log' = Append(LogBegun, Stmt("UPDATE", "products", NULL, NULL, v = "none"))
            /\ txOpen' = TRUE
            /\ dbAtBegin' = BaseBegun
            /\ mark' = Len(LogBegun)
            /\ IF v = "none"
                 THEN /\ tx' = after
                      /\ count' = RowCount(CurTx, 1)
                      /\ pc' = "rollback"
                      /\ err' = err
                 ELSE /\ tx' = CurTx
                      /\ count' = count
                      /\ pc' = "unwind"
                      /\ err' = v
    /\ UNCHANGED << db, seq, sessVars, sessOpen, popVars, roots, i, ops >>

\* session.commit() in the place of the rollback.
RollbackDemoCommits ==
    /\ pc = "rollback"
    /\ db' = Commit(db, tx)
    /\ tx' = db'
    /\ txOpen' = FALSE
    /\ log' = Append(log, Stmt("COMMIT", "", NULL, NULL, TRUE))
    /\ loaded' = {}
    /\ imap' = {}
    /\ roots' = << >>
    /\ i' = 1
    /\ pc' = "n1_query"
    /\ UNCHANGED << seq, dbAtBegin, new, dirty, ident, sessOpen, popVars,
                    count, mark, err, ops >>

\* session.rollback()  # Undo for demo purposes; every object is expired,
\* and good_patterns_demo returns, dropping its objects.
RollbackDemo ==
    /\ pc = "rollback"
    /\ db' = Rollback(db, tx)
    /\ tx' = db'
    /\ txOpen' = FALSE
    /\ log' = Append(log, Stmt("ROLLBACK", "", NULL, NULL, TRUE))
    /\ loaded' = {}
    /\ imap' = {}
    /\ roots' = << >>
    /\ i' = 1
    /\ pc' = "n1_query"
    /\ UNCHANGED << seq, dbAtBegin, new, dirty, ident, sessOpen, popVars,
                    count, mark, err, ops >>

GoodPatterns ==
    \/ QExpensive
    \/ JoinedLoad
    \/ JoinedAccess
    \/ SelectInLoad
    \/ SelectInAccess
    \/ QAggregate
    \/ QColumns
    \/ QExists
    \/ BulkUpdate
    \/ RollbackDemo

(***************************************************************************)
(* bad_patterns_demo                                                       *)
(***************************************************************************)
N1Limit == 5

DictLimit == 3

manufacturer_ids == << 1, 2, 3 >>

AllProducts(d) == SortedSeq(Ids(d, "products"))

\* products = session.query(Product).limit(5).all()  # Query 1
N1Query ==
    /\ pc = "n1_query"
    /\ LET rs == Limit(AllProducts(CurTx), N1Limit)
       IN Select("products", {rs[n] : n \in 1..Len(rs)}, "n1_access", rs, Len(LogBegun))
    /\ UNCHANGED << loaded, sessOpen, popVars, count, ops >>

\* for product in products: if product.manufacturer: ...
N1Access ==
    /\ pc = "n1_access"
    /\ i <= Len(roots)
    /\ ReadToOne(roots[i], "manufacturer", "n1_access", i + 1)
    /\ UNCHANGED << sessOpen, popVars, count, ops >>

\* all_product_data = session.query(Product).all()
QAllProducts ==
    /\ pc = "n1_access"
    /\ i > Len(roots)
    /\ Select("products", Ids(CurTx, "products"), "q_by_manufacturer",
              AllProducts(CurTx), Len(LogBegun))
    /\ UNCHANGED << loaded, sessOpen, popVars, count, ops >>

\* for mfg_id in manufacturer_ids: session.query(Product).filter(...).all()
QByManufacturer ==
    /\ pc = "q_by_manufacturer"
    /\ i <= Len(manufacturer_ids)
    /\ LET ps == {r.id : r \in {q \in CurTx.products : q.mfg = manufacturer_ids[i]}}
       IN \E fault \in {"none", "StoreUnavailable"} :
            /\ log' = Append(LogBegun, Stmt("SELECT", "products", NULL, NULL, fault = "none"))
            /\ tx' = CurTx
            /\ txOpen' = TRUE
            /\ dbAtBegin' = BaseBegun
            /\ IF fault = "none"
                 THEN /\ imap' = imap \cup {<<"products", id>> : id \in ps}
                      /\ roots' = SortedSeq(ps)
                      /\ i' = i + 1
                      /\ UNCHANGED << pc, err >>
                 ELSE /\ UNCHANGED << imap, roots, i >>
                      /\ pc' = "unwind"
                      /\ err' = fault
    /\ UNCHANGED << db, seq, new, dirty, ident, loaded, sessOpen, popVars,
                    count, mark, ops >>

\* all_products = session.query(Product).all(), counted and averaged in Python
QAllProductsAgain ==
    /\ pc = "q_by_manufacturer"
    /\ i > Len(manufacturer_ids)
    /\ Select("products", Ids(CurTx, "products"), "dict_query",
              AllProducts(CurTx), Len(LogBegun))
    /\ UNCHANGED << loaded, sessOpen, popVars, count, ops >>

\* products = session.query(Product).limit(3).all()
DictQuery ==
    /\ pc = "dict_query"
    /\ LET rs == Limit(AllProducts(CurTx), DictLimit)
       IN Select("products", {rs[n] : n \in 1..Len(rs)}, "dict_manufacturer", rs,
                 Len(LogBegun))
    /\ UNCHANGED << loaded, sessOpen, popVars, count, ops >>

\* bad_product_to_dict: product.manufacturer.name if product.manufacturer ...
DictManufacturer ==
    /\ pc = "dict_manufacturer"
    /\ i <= Len(roots)
    /\ ReadToOne(roots[i], "manufacturer", "dict_category", i)
    /\ UNCHANGED << sessOpen, popVars, count, ops >>

\* bad_product_to_dict: product.category.name if product.category ...
DictCategory ==
    /\ pc = "dict_category"
    /\ ReadToOne(roots[i], "category", "dict_manufacturer", i + 1)
    /\ UNCHANGED << sessOpen, popVars, count, ops >>

BadPatterns ==
    \/ N1Query
    \/ N1Access
    \/ QAllProducts
    \/ QByManufacturer
    \/ QAllProductsAgain
    \/ DictQuery
    \/ DictManufacturer
    \/ DictCategory

(***************************************************************************)
(* comparison_demo and advanced_features_demo                              *)
(***************************************************************************)
\* session.query(func.count(Product.product_id)).filter(...).scalar()
QCount ==
    /\ pc = "dict_manufacturer"
    /\ i > Len(roots)
    /\ Select("products", {}, "q_raw", roots, Len(LogBegun))
    /\ UNCHANGED << loaded, sessOpen, popVars, count, ops >>

\* session.execute(text("SELECT name, price FROM products WHERE ..."), {...})
QRaw ==
    /\ pc = "q_raw"
    /\ Select("products", {}, "q_above_avg", roots, Len(LogBegun))
    /\ UNCHANGED << loaded, sessOpen, popVars, count, ops >>

\* session.query(Product).filter(Product.price > avg_price_subq).all()
QAboveAvg ==
    /\ pc = "q_above_avg"
    /\ Select("products", Ids(CurTx, "products"), "q_ranked", roots, Len(LogBegun))
    /\ UNCHANGED << loaded, sessOpen, popVars, count, ops >>

\* session.query(Product.name, Product.price, func.row_number()...).limit(5).all()
QRanked ==
    /\ pc = "q_ranked"
    /\ Select("products", {}, "close", roots, Len(LogBegun))
    /\ UNCHANGED << loaded, sessOpen, popVars, count, ops >>

OtherDemos ==
    \/ QCount
    \/ QRaw
    \/ QAboveAvg
    \/ QRanked

(***************************************************************************)
(* main(): the finally clause and the end of the run.                      *)
(***************************************************************************)
\* A finally clause that does not close the session.
CloseSkipped ==
    /\ pc \in {"close", "unwind"}
    /\ pc' = IF err = "none" THEN "done" ELSE "raised"
    /\ UNCHANGED << storeVars, sessVars, sessOpen, log, popVars, demoVars, err, ops >>

\* session.close(): an open transaction is rolled back and the connection
\* released; then main returns, or re-raises what it caught.
Close ==
    /\ pc \in {"close", "unwind"}
    /\ sessOpen' = FALSE
    /\ db' = IF txOpen THEN Rollback(db, tx) ELSE db
    /\ tx' = db'
    /\ txOpen' = FALSE
    /\ log' = IF txOpen THEN Append(log, Stmt("ROLLBACK", "", NULL, NULL, TRUE)) ELSE log
    /\ new' = << >>
    /\ dirty' = << >>
    /\ ident' = << >>
    /\ imap' = {}
    /\ loaded' = {}
    /\ pc' = IF err = "none" THEN "done" ELSE "raised"
    /\ UNCHANGED << seq, dbAtBegin, popVars, demoVars, err, ops >>

Populate ==
    \/ AddManufacturers
    \/ AddElectronics
    \/ FlushElectronics
    \/ AddCategories
    \/ FlushCategories
    \/ AddProducts
    \/ FlushProducts
    \/ OrderAdd
    \/ OrderFlush
    \/ ItemAdd
    \/ SetTotal
    \/ CommitPopulate

Next == Populate \/ GoodPatterns \/ BadPatterns \/ OtherDemos \/ Close

\* The call of main's try block that the next step belongs to; "main" once
\* the calls are over or an exception is on its way out.
RequestOf ==
    CASE pc \in {"add_manufacturers", "add_electronics", "flush_electronics",
                 "add_categories", "flush_categories", "add_products",
                 "flush_products", "order_add", "order_flush", "item_add",
                 "set_total", "commit"} -> "populate_sample_data"
      [] pc \in {"q_expensive", "joined", "joined_access", "selectin_access",
                 "q_columns", "q_exists", "bulk_update", "rollback"}
           -> "good_patterns_demo"
      [] pc \in {"n1_query", "n1_access", "q_by_manufacturer", "dict_query",
                 "dict_category"} -> "bad_patterns_demo"
      [] pc = "dict_manufacturer" ->
           IF i <= Len(roots) THEN "bad_patterns_demo" ELSE "comparison_demo"
      [] pc \in {"q_raw", "q_above_avg", "q_ranked"} -> "advanced_features_demo"
      [] OTHER -> "main"

Spec == Init /\ [][Next]_vars

(***************************************************************************)
(* Deletes, as the mapped classes and the schema declare them. They are    *)
(* requests of later units of work on the store main has populated, each   *)
(* committed on its own.                                                   *)
(***************************************************************************)
MaxOps == 2

\* Manufacturer.products declared with cascade='all, delete-orphan'.
OrmDeletedCascading(d, tbl, id) ==
    CASE tbl = "orders" ->
           [d EXCEPT !.orders = {r \in @ : r.id # id},
                     !.order_items = {r \in @ : r.order_id # id}]
      [] tbl = "manufacturers" ->
           [d EXCEPT !.manufacturers = {r \in @ : r.id # id},
                     !.products = {r \in @ : r.mfg # id}]
      [] OTHER ->
           [d EXCEPT !.categories = {r \in @ : r.id # id},
                     !.products = {r \in @ : r.cat # id}]

\* session.delete(obj) and commit. An Order's items go with it
\* (cascade='all, delete-orphan'); the other relationships have no delete
\* cascade, so the unit of work sets the children's foreign key to NULL
\* before it deletes the parent row.
OrmDeleted(d, tbl, id) ==
    CASE tbl = "orders" ->
           [d EXCEPT !.orders = {r \in @ : r.id # id},
                     !.order_items = {r \in @ : r.order_id # id}]
      [] tbl = "manufacturers" ->
           [d EXCEPT !.manufacturers = {r \in @ : r.id # id},
                     !.products = {IF r.mfg = id THEN [r EXCEPT !.mfg = NULL] ELSE r : r \in @}]
      [] OTHER ->
           [d EXCEPT !.categories =
                        {IF r.parent = id THEN [r EXCEPT !.parent = NULL] ELSE r :
                           r \in {c \in @ : c.id # id}},
                     !.products = {IF r.cat = id THEN [r EXCEPT !.cat = NULL] ELSE r : r \in @}]

\* Whether a row of d still refers to row id of tbl through a foreign key
\* declared without ON DELETE.
Referenced(d, tbl, id) ==
    CASE tbl = "manufacturers" -> \E r \in d.products : r.mfg = id
      [] tbl = "categories" ->
           \/ \E r \in d.products : r.cat = id
           \/ \E r \in d.categories : r.parent = id
      [] tbl = "products" -> \E r \in d.order_items : r.product_id = id
      [] OTHER -> FALSE

\* DELETE FROM tbl WHERE <pk> = id, as the tables' foreign keys decide it:
\* order_items.order_id is ON DELETE CASCADE, the others reject the delete
\* of a row that is still referred to.
SqlDeleted(d, tbl, id) ==
    IF Referenced(d, tbl, id) THEN d
    ELSE [d EXCEPT ![tbl] = {r \in @ : r.id # id},
                   !.order_items = IF tbl = "orders" THEN {r \in @ : r.order_id # id}
                                   ELSE IF tbl = "order_items" THEN {r \in @ : r.id # id}
                                   ELSE @]

OrmDelete ==
    /\ pc = "done"
    /\ Len(ops) < MaxOps
    /\ \E tbl \in {"orders", "manufacturers", "categories"} :
         \E id \in Ids(db, tbl) :
           /\ db' = OrmDeleted(db, tbl, id)
           /\ ops' = Append(ops, [via |-> "orm", tbl |-> tbl, id |-> id, ok |-> TRUE])
    /\ tx' = db'
    /\ UNCHANGED << txOpen, seq, dbAtBegin, sessVars, sessOpen, log, pc,
                    popVars, demoVars, err >>

SqlDelete ==
    /\ pc = "done"
    /\ Len(ops) < MaxOps
    /\ \E tbl \in Tables :
         \E id \in Ids(db, tbl) :
           /\ db' = SqlDeleted(db, tbl, id)
           /\ ops' = Append(ops, [via |-> "sql", tbl |-> tbl, id |-> id,
                                  ok |-> ~Referenced(db, tbl, id)])
    /\ tx' = db'
    /\ UNCHANGED << txOpen, seq, dbAtBegin, sessVars, sessOpen, log, pc,
                    popVars, demoVars, err >>

NextStore == Next \/ OrmDelete \/ SqlDelete

SpecStore == Init /\ [][NextStore]_vars

(***************************************************************************)
(* The category hierarchy, as Category declares it: parent_category_id is  *)
(* a nullable foreign key to categories, and parent / children are the two *)
(* sides of one relationship(). The requests below are those of a later    *)
(* unit of work, with a session of its own, on the store main has          *)
(* populated.                                                              *)
(***************************************************************************)
\* The categories the requests are about: Electronics, its child Computers,
\* and the root Home & Garden.
SomeCategories == {1, 2, 5}

\* The values a request assigns to parent_category_id: None, one of those
\* categories, or an id no category has.
SomeParents == SomeCategories \cup {NULL, Len(CategoryData) + 1}

\* The lazy load of category.children: SELECT ... WHERE parent_category_id = id
Children(d, id) == {r.id : r \in {c \in d.categories : c.parent = id}}

\* What reading category.children gives: the collection the object holds
\* once it has been loaded, and the lazy load's rows when it has not.
ChildrenRead(id) ==
    IF IsLoaded(<<"categories", id>>, "children")
      THEN (CHOOSE e \in loaded : e.obj = <<"categories", id>> /\ e.rel = "children").val
      ELSE Children(CurTx, id)

\* category.children
ReadChildren ==
    /\ pc = "done"
    /\ Len(ops) < MaxOps
    /\ \E c \in SomeCategories \cap Ids(CurTx, "categories") :
         /\ loaded' = loaded \cup {[obj |-> <<"categories", c>>, rel |-> "children",
                                    val |-> ChildrenRead(c)]}
         /\ imap' = imap \cup {<<"categories", c>>}
                         \cup {<<"categories", x>> : x \in ChildrenRead(c)}
         /\ ops' = Append(ops, [via |-> "children", tbl |-> "categories",
                                id |-> c, ok |-> TRUE])
    /\ tx' = CurTx
    /\ txOpen' = TRUE
    /\ dbAtBegin' = BaseBegun
    /\ UNCHANGED << db, seq, new, dirty, ident, sessOpen, log, pc,
                    popVars, demoVars, err >>

\* category.parent_category_id = p; session.flush(): one UPDATE, which the
\* store checks against the table's constraints. A refused UPDATE rolls the
\* session's transaction back, and the rollback expires every object.
SetParent ==
    /\ pc = "done"
    /\ Len(ops) < MaxOps
    /\ \E c \in SomeCategories \cap Ids(CurTx, "categories") :
         \E p \in SomeParents :
           LET old == Row(CurTx, "categories", c)
               row == [old EXCEPT !.parent = p]
               ok  == Violation(CurTx, "categories", row) = "ok"
           IN /\ ops' = Append(ops, [via |-> "parent", tbl |-> "categories",
                                     id |-> c, ok |-> ok])
              /\ IF ok
                   THEN /\ tx' = [CurTx EXCEPT !.categories = (@ \ {old}) \cup {row}]
                        /\ txOpen' = TRUE
                        /\ dbAtBegin' = BaseBegun
                        /\ imap' = imap \cup {<<"categories", c>>}
                        /\ loaded' = loaded
                   ELSE /\ tx' = Rollback(db, CurTx)
                        /\ txOpen' = FALSE
                        /\ dbAtBegin' = BaseBegun
                        /\ imap' = imap
                        /\ loaded' = {}
    /\ UNCHANGED << db, seq, new, dirty, ident, sessOpen, log, pc,
                    popVars, demoVars, err >>

\* session.commit(): the transaction's rows become the committed rows, and
\* every object of the session is expired.
CommitUnitOfWork ==
    /\ pc = "done"
    /\ txOpen
    /\ db' = Commit(db, tx)
    /\ tx' = db'
    /\ txOpen' = FALSE
    /\ loaded' = {}
    /\ UNCHANGED << seq, dbAtBegin, new, dirty, ident, imap, sessOpen, log, pc,
                    popVars, demoVars, err, ops >>

NextCategory == Next \/ ReadChildren \/ SetParent \/ CommitUnitOfWork

SpecCategory == Init /\ [][NextCategory]_vars

(***************************************************************************)
(* Writes to products and categories, as the store decides them under the  *)
(* constraints Product and Category declare. Each is the request of a      *)
(* later unit of work on the populated store, committed on its own.        *)
(***************************************************************************)
SomeSkus == {"TECH-LAP-001", "NEW-001"}

SomePrices == {-1, 500}

SomeQuantities == {-1, 3}

SomeNames == {"Audio", "Toys"}

\* The products the single-row updates are about; PACI-SPK-001 has no stock.
SomeProducts == {1, 9}

\* The deltas of the bulk updates.
SomeDeltas == {10, -1, -50}

\* A write statement that the store applies without looking at the
\* constraints.
WrittenUnchecked(d, tbl, rows) ==
    [d EXCEPT ![tbl] = {r \in @ : r.id \notin {w.id : w \in rows}} \cup rows]

\* One INSERT or UPDATE statement that writes rows into tbl: the store
\* applies all of it, or, when a written row violates a constraint, none.
Written(d, tbl, rows) ==
    LET after == [d EXCEPT ![tbl] = {r \in @ : r.id \notin {w.id : w \in rows}} \cup rows]
    IN IF \E w \in rows : Violation(after, tbl, w) # "ok" THEN d ELSE after

\* A write request: the statement, then COMMIT, or ROLLBACK when the store
\* refused the statement.
Request(via, tbl, id, rows) ==
    /\ db' = Commit(db, Written(db, tbl, rows))
    /\ tx' = db'
    /\ ops' = Append(ops, [via |-> via, tbl |-> tbl, id |-> id,
                           ok |-> \A w \in rows : w \in db'[tbl]])

\* session.add(Product(...)); session.commit()
InsertProduct ==
    /\ pc = "done"
    /\ Len(ops) < MaxOps
    /\ \E sku \in SomeSkus, price \in SomePrices, qty \in SomeQuantities :
         Request("insert", "products", seq["products"] + 1,
                 {[id |-> seq["products"] + 1, sku |-> sku, price |-> price,
                   qty |-> qty, mfg |-> 1, cat |-> 2]})
    /\ seq' = [seq EXCEPT !["products"] = @ + 1]
    /\ UNCHANGED << txOpen, dbAtBegin, sessVars, sessOpen, log, pc,
                    popVars, demoVars, err >>

\* product.sku = ..., product.price = ... or product.quantity_in_stock = ...;
\* session.commit()
UpdateProduct ==
    /\ pc = "done"
    /\ Len(ops) < MaxOps
    /\ \E id \in SomeProducts \cap Ids(db, "products") :
         LET old == Row(db, "products", id)
         IN \E row \in {[old EXCEPT !.sku = v] : v \in SomeSkus}
                         \cup {[old EXCEPT !.price = v] : v \in SomePrices}
                         \cup {[old EXCEPT !.qty = v] : v \in SomeQuantities} :
              Request("update", "products", id, {row})
    /\ UNCHANGED << txOpen, seq, dbAtBegin, sessVars, sessOpen, log, pc,
                    popVars, demoVars, err >>

\* session.query(Product).filter(Product.manufacturer_id == mfg)
\*        .update({'quantity_in_stock': Product.quantity_in_stock + delta});
\* session.commit()
BulkUpdateProducts ==
    /\ pc = "done"
    /\ Len(ops) < MaxOps
    /\ \E mfg \in {1, 5}, delta \in SomeDeltas :
         Request("bulk", "products", mfg,
                 {r \in BulkUpdateRows(db, mfg, delta).products : r.mfg = mfg})
    /\ UNCHANGED << txOpen, seq, dbAtBegin, sessVars, sessOpen, log, pc,
                    popVars, demoVars, err >>

\* session.add(Category(name=...)); session.commit()
InsertCategory ==
    /\ pc = "done"
    /\ Len(ops) < MaxOps
    /\ \E name \in SomeNames :
         Request("insert", "categories", seq["categories"] + 1,
                 {[id |-> seq["categories"] + 1, name |-> name, parent |-> NULL]})
    /\ seq' = [seq EXCEPT !["categories"] = @ + 1]
    /\ UNCHANGED << txOpen, dbAtBegin, sessVars, sessOpen, log, pc,
                    popVars, demoVars, err >>

\* category.name = ...; session.commit()
RenameCategory ==
    /\ pc = "done"
    /\ Len(ops) < MaxOps
    /\ \E id \in SomeCategories \cap Ids(db, "categories"), name \in SomeNames :
         Request("update", "categories", id,
                 {[Row(db, "categories", id) EXCEPT !.name = name]})
    /\ UNCHANGED << txOpen, seq, dbAtBegin, sessVars, sessOpen, log, pc,
                    popVars, demoVars, err >>

NextProduct ==
    Next \/ InsertProduct \/ UpdateProduct \/ BulkUpdateProducts
         \/ InsertCategory \/ RenameCategory

SpecProduct == Init /\ [][NextProduct]_vars

(***************************************************************************)
(* bad_create_order_items, which bad_patterns_demo defines and does not    *)
(* call: here it is called, with a session on the populated store.         *)
(***************************************************************************)
\* items_data: an item of product 1, one with a quantity of 0 and a negative
\* price, and one of a product that does not exist.
SomeItemLists ==
    LET a == [product_id |-> 1, quantity |-> 1, unit_price |-> 500]
        z == [product_id |-> 2, quantity |-> 0, unit_price |-> -1]
        x == [product_id |-> Len(ProductData) + 1, quantity |-> 1, unit_price |-> 500]
    IN { << a, z, a >>, << a, a, x >>, << x >> }

\* order_id: a sample order, and an id no order has.
SomeOrders == {1, Len(orders_data) + 1}

\* The row of OrderItem(order_id=..., product_id=..., quantity=...,
\* unit_price=...): discount_percent takes the column's default.
ItemRow(id, order_id, item_data) ==
    [id |-> id, order_id |-> order_id, product_id |-> item_data.product_id,
     qty |-> item_data.quantity, unit_price |-> item_data.unit_price,
     discount |-> 0]

\* The for loop from its n-th round on: session.add(item); session.commit().
\* f is the round whose INSERT or COMMIT the store fails for a reason of its
\* own (0: none). A failed round raises out of the loop; the rounds before
\* it have committed. acc is [d, seq, failed].
RECURSIVE BadCreateLoop(_, _, _, _, _)
BadCreateLoop(order_id, items_data, n, f, acc) ==
    IF n > Len(items_data) THEN acc
    ELSE LET id  == acc.seq + 1
             row == ItemRow(id, order_id, items_data[n])
             t   == [acc.d EXCEPT !.order_items = @ \cup {row}]
         IN IF f = n \/ Violation(acc.d, "order_items", row) # "ok"
              THEN [acc EXCEPT !.seq = id, !.d = Rollback(acc.d, t), !.failed = n]
              ELSE BadCreateLoop(order_id, items_data, n + 1, f,
                                 [acc EXCEPT !.seq = id, !.d = Commit(acc.d, t)])

\* The same items added in one transaction, committed once after the loop.
bad_create_order_items_one_commit(d, s, order_id, items_data, f) ==
    LET res == BadCreateLoop(order_id, items_data, 1, f,
                             [d |-> d, seq |-> s, failed |-> 0])
    IN IF res.failed # 0 THEN [res EXCEPT !.d = d] ELSE res

bad_create_order_items(d, s, order_id, items_data, f) ==
    BadCreateLoop(order_id, items_data, 1, f, [d |-> d, seq |-> s, failed |-> 0])

BadCreateOrderItems ==
    /\ pc = "done"
    /\ Len(ops) < MaxOps
    /\ \E order_id \in SomeOrders, items_data \in SomeItemLists :
         \E f \in 0..Len(items_data) :
           LET res == bad_create_order_items(db, seq["order_items"], order_id, items_data, f)
           IN /\ db' = res.d
              /\ seq' = [seq EXCEPT !["order_items"] = res.seq]
              /\ ops' = Append(ops, [via |-> "bad_create_order_items",
                                     tbl |-> "order_items", id |-> order_id,
                                     ok |-> res.failed = 0,
                                     items_data |-> items_data,
                                     failed |-> res.failed,
                                     first |-> seq["order_items"] + 1])
    /\ tx' = db'
    /\ UNCHANGED << txOpen, dbAtBegin, sessVars, sessOpen, log, pc,
                    popVars, demoVars, err >>

NextItems == Next \/ BadCreateOrderItems

SpecItems == Init /\ [][NextItems]_vars

(***************************************************************************)
(* OrderItem.line_total. An attribute that may be None is << >> for None   *)
(* and << v >> for the value v; the result is in hundredths of a cent, as  *)
(* populate_sample_data's running total is.                                *)
(***************************************************************************)
\* x or 0: 0 when x is None or zero, else x.
OrZero(x) == IF x = << >> \/ x = << 0 >> THEN 0 ELSE x[1]

\* A line total that leaves the discount out.
line_total_undiscounted(quantity, unit_price, discount_percent) ==
    quantity * unit_price * 100

\* discount_multiplier = 1 - (float(self.discount_percent or 0) / 100)
\* return float(self.quantity) * float(self.unit_price) * discount_multiplier
line_total(quantity, unit_price, discount_percent) ==
    LET discount_multiplier == 100 - OrZero(discount_percent)
    IN quantity * unit_price * discount_multiplier

\* The attributes of an OrderItem object that holds row it.
ItemObject(it) ==
    [quantity |-> it.qty, unit_price |-> it.unit_price,
     discount_percent |-> << it.discount >>]

\* OrderItem objects that no row backs yet, some without a discount_percent.
SomeItemObjects ==
    [quantity : {1, 2}, unit_price : {999},
     discount_percent : {<< >>, << 0 >>, << 10 >>, << 100 >>}]

\* item.line_total, read on an item of the populated store or on a new
\* OrderItem object.
ReadLineTotal ==
    /\ pc = "done"
    /\ Len(ops) < MaxOps
    /\ \E item \in {ItemObject(it) : it \in db.order_items} \cup SomeItemObjects :
         ops' = Append(ops, [via |-> "line_total", tbl |-> "order_items",
                             id |-> NULL, ok |-> TRUE, item |-> item,
                             val |-> line_total(item.quantity, item.unit_price,
                                                item.discount_percent)])
    /\ UNCHANGED << storeVars, sessVars, sessOpen, log, pc, popVars, demoVars, err >>

NextLineTotal == Next \/ ReadLineTotal

SpecLineTotal == Init /\ [][NextLineTotal]_vars

(***************************************************************************)
(* Properties                                                              *)
(***************************************************************************)
IsItemInsert(n) == log[n].op = "INSERT" /\ log[n].tbl = "order_items"

IsOrderInsert(n) == log[n].op = "INSERT" /\ log[n].tbl = "orders"

IsTotalUpdate(n) == log[n].op = "UPDATE" /\ log[n].tbl = "orders"

IsTxEnd(n) == log[n].op \in {"BEGIN", "COMMIT", "ROLLBACK"}

RECURSIVE SumLines(_)
SumLines(S) ==
    IF S = {} THEN 0
    ELSE LET it == CHOOSE x \in S : TRUE
         IN it.qty * it.unit_price * (100 - it.discount) + SumLines(S \ {it})

ItemsOf(d, o) == {it \in d.order_items : it.order_id = o}

Abs(x) == IF x < 0 THEN -x ELSE x

\* C1: once the INSERT of a line item of an order has failed, the store holds
\* no row of that order: neither its header nor any of its items, in the
\* committed rows and in what the session's connection sees.
C1_CreateOrderAtomic ==
    \A n \in DOMAIN log :
      (IsItemInsert(n) /\ ~log[n].ok) =>
         \A d \in {db, CurTx} :
           /\ log[n].fk \notin Ids(d, "orders")
           /\ ItemsOf(d, log[n].fk) = {}

\* The INSERT of the last of K >= 2 items of an order failed, after the K-1
\* before it were inserted, and main has re-raised.
C1_Witness ==
    /\ pc = "raised"
    /\ \E n \in DOMAIN log :
         /\ IsItemInsert(n) /\ ~log[n].ok
         /\ log[n].fk \in DOMAIN orders_data
         /\ Len(orders_data[log[n].fk].items) >= 2
         /\ Cardinality({m \in 1..(n - 1) : IsItemInsert(m) /\ log[m].ok
                                             /\ log[m].fk = log[n].fk})
              = Len(orders_data[log[n].fk].items) - 1

\* C2: every committed order's total_amount (in cents) is the sum of its
\* items' quantity * unit_price * (1 - discount_percent/100), to within half
\* a cent, the rounding of the two-decimal column.
C2_TotalAmount ==
    \A o \in db.orders :
      Abs(100 * o.total - SumLines(ItemsOf(db, o.id))) <= 50

\* A committed order with a discounted item whose line total is not a whole
\* number of cents.
C2_Witness ==
    \E o \in db.orders :
      /\ \E it \in ItemsOf(db, o.id) : it.discount > 0
      /\ SumLines(ItemsOf(db, o.id)) % 100 # 0

C4_FlushGivesId ==
    /\ \A n \in DOMAIN new :
         new[n].obj[1] = "order_items" =>
            /\ new[n].row.order_id # NULL
            /\ txOpen
            /\ new[n].row.order_id \in Ids(tx, "orders") \ Ids(db, "orders")
    /\ \A b \in DOMAIN log :
         IsItemInsert(b) =>
            /\ log[b].fk # NULL
            /\ \E a \in 1..(b - 1) :
                 /\ IsOrderInsert(a) /\ log[a].ok /\ log[a].id = log[b].fk
                 /\ \A m \in a..b : ~IsTxEnd(m)

\* Before the commit, an item was inserted for a header that the open
\* transaction alone holds.
C4_Witness ==
    /\ txOpen
    /\ pc = "commit"
    /\ \E b \in DOMAIN log : IsItemInsert(b) /\ log[b].ok
                             /\ log[b].fk \notin Ids(db, "orders")

\* C5, as claimed: after one query for N products, reading the lazy
\* manufacturer of each has sent exactly N more SELECTs (N + 1 in all); and
\* reading manufacturer and category of each of N products 2N more.
C5_LazyNPlusOne ==
    /\ (pc = "n1_access" /\ i > Len(roots)) => NumSelects = 1 + Len(roots)
    /\ (pc = "dict_manufacturer" /\ i > Len(roots)) => NumSelects = 1 + 2 * Len(roots)

C8_BulkUpdateSingleStatement ==
    pc = "rollback" =>
      /\ Len(StmtsSince) = 1
      /\ StmtsSince[1].op = "UPDATE" /\ StmtsSince[1].tbl = "products"
      /\ count = Cardinality({r \in db.products : r.mfg = 1})
      /\ Ids(tx, "products") = Ids(db, "products")
      /\ \A r \in db.products :
           Row(tx, "products", r.id) =
             [r EXCEPT !.qty = IF r.mfg = 1 THEN @ + 10 ELSE @]
      /\ \A t \in Tables \ {"products"} : tx[t] = db[t]

\* The update has run on a store where manufacturer 1 has several products
\* and other manufacturers have products too.
C8_Witness ==
    /\ pc = "rollback"
    /\ count >= 2
    /\ \E r \in tx.products : r.mfg # 1

\* C9: a delete of an Order removes that order and exactly its items and
\* changes nothing else; a delete of a Manufacturer or a Category removes no
\* product: it is either rejected, changing nothing, or it leaves every
\* product in place with at most the foreign key to the deleted row set to
\* NULL, after which no product refers to the deleted row.
C9_DeleteOwnership ==
    [][ops' # ops =>
         LET r == ops'[Len(ops')]
         IN /\ ~r.ok => db' = db
            /\ (r.ok /\ r.tbl = "orders") =>
                 /\ db'.orders = {o \in db.orders : o.id # r.id}
                 /\ db'.order_items = {it \in db.order_items : it.order_id # r.id}
                 /\ \A t \in Tables \ {"orders", "order_items"} : db'[t] = db[t]
            /\ (r.tbl = "manufacturers") =>
                 /\ Ids(db', "products") = Ids(db, "products")
                 /\ \A q \in db.products :
                      Row(db', "products", q.id) \in {q, [q EXCEPT !.mfg = NULL]}
                 /\ r.ok => \A q \in db'.products : q.mfg # r.id
            /\ (r.tbl = "categories") =>
                 /\ Ids(db', "products") = Ids(db, "products")
                 /\ \A q \in db.products :
                      Row(db', "products", q.id) \in {q, [q EXCEPT !.cat = NULL]}
                 /\ r.ok => \A q \in db'.products : q.cat # r.id
    ]_vars

\* An order with items, and then a manufacturer with products, have been
\* deleted.
C9_Witness ==
    /\ Len(ops) = 2
    /\ ops[1].tbl = "orders" /\ ops[1].ok
    /\ ops[2].tbl = "manufacturers" /\ ops[2].ok
    /\ \E q \in db.products : q.mfg = NULL /\ ProductData[q.id].mfg = ops[2].id
    /\ Cardinality(db.order_items) < 9

\* The last statement the store refused.
LastFailed == log[CHOOSE n \in DOMAIN log :
                    ~log[n].ok /\ \A m \in DOMAIN log : ~log[m].ok => m <= n]

FlushFailed ==
    /\ \E n \in DOMAIN log : ~log[n].ok
    /\ \/ LastFailed.op \in {"INSERT", "COMMIT"}
       \/ LastFailed.op = "UPDATE" /\ LastFailed.tbl = "orders"

\* C10: when main re-raises an error, no transaction is open, the session is
\* closed and the committed rows are those of before the failed transaction
\* began; and when the failure was a write of a flush or the COMMIT, that
\* already holds while the error leaves populate_sample_data.
C10_FailureRollsBack ==
    /\ pc = "raised" => (~txOpen /\ ~sessOpen /\ db = dbAtBegin)
    /\ (pc = "unwind" /\ FlushFailed) => (~txOpen /\ db = dbAtBegin)

\* main has re-raised a constraint violation that came after successful
\* writes of the same transaction.
C10_Witness ==
    /\ pc = "raised"
    /\ err = "ConstraintViolation"
    /\ \E n \in DOMAIN log : log[n].op = "INSERT" /\ log[n].ok

\* C11, as claimed: whatever parent_category_id has been changed to, reading
\* a category's children gives exactly the categories whose
\* parent_category_id is its id.
C11_ChildrenDerived ==
    \A c \in SomeCategories \cap Ids(CurTx, "categories") :
      ChildrenRead(c) = Children(CurTx, c)

\* Following parent_category_id from id reaches NULL in at most n steps.
RECURSIVE ReachesRoot(_, _, _)
ReachesRoot(d, id, n) ==
    IF id = NULL THEN TRUE
    ELSE IF n = 0 \/ id \notin Ids(d, "categories") THEN FALSE
    ELSE ReachesRoot(d, Row(d, "categories", id).parent, n - 1)

CycleFree(d) ==
    \A c \in d.categories : ReachesRoot(d, c.id, Cardinality(d.categories))

\* C12, as claimed: in the committed rows and in those of an open
\* transaction, every category's parent chain ends at a root; a write that
\* makes a category its own ancestor is therefore never accepted.
C12_ParentChainCycleFree ==
    CycleFree(db) /\ CycleFree(CurTx)

\* The committed rows keep the constraints of products and categories.
ProductsValid ==
    /\ \A r \in db.products : r.price >= 0 /\ r.qty >= 0
    /\ \A r, q \in db.products : r.sku = q.sku => r = q
    /\ \A r, q \in db.categories : r.name = q.name => r = q

\* C13: every committed product has price >= 0 and quantity_in_stock >= 0,
\* no two committed products share a sku and no two categories a name; and a
\* write the store refuses (an insert, an update of one row, a bulk update)
\* leaves the committed rows as they were.
C13_ProductConstraints ==
    /\ []ProductsValid
    /\ [][(ops' # ops /\ ~ops'[Len(ops')].ok) => db' = db]_vars

\* A bulk update that would have made one of several rows negative was
\* refused, and so was an insert or update of one row.
C13_Witness ==
    /\ Len(ops) = 2
    /\ ops[1].via = "bulk" /\ ops[1].id = 1 /\ ~ops[1].ok
    /\ ops[2].via \in {"insert", "update"} /\ ~ops[2].ok

\* C14, as claimed: every committed order item has quantity > 0,
\* unit_price >= 0 and a discount_percent within 0..100, and non-null
\* order_id and product_id that are the ids of a committed order and product.
C14_OrderItemConstraints ==
    \A it \in db.order_items :
      /\ it.qty > 0
      /\ it.unit_price >= 0
      /\ it.discount >= 0 /\ it.discount <= 100
      /\ it.order_id # NULL /\ it.order_id \in Ids(db, "orders")
      /\ it.product_id # NULL /\ it.product_id \in Ids(db, "products")

\* C17: when a call of bad_create_order_items fails at its j-th item, the
\* committed rows are those of before the call and the items 1..j-1 of the
\* call, with discount_percent 0; the items j..K are absent, and no other
\* table has changed. When none fails, all K items are committed.
C17_PerItemCommitNotAtomic ==
    [][ops' # ops =>
         LET r == ops'[Len(ops')]
             K == Len(r.items_data)
             last == IF r.failed = 0 THEN K ELSE r.failed - 1
         IN /\ db'.order_items = db.order_items \cup
                 {[id |-> r.first + n - 1, order_id |-> r.id,
                   product_id |-> r.items_data[n].product_id,
                   qty |-> r.items_data[n].quantity,
                   unit_price |-> r.items_data[n].unit_price,
                   discount |-> 0] : n \in 1..last}
            /\ Cardinality(db'.order_items) = Cardinality(db.order_items) + last
            /\ \A t \in Tables \ {"order_items"} : db'[t] = db[t]
    ]_vars

\* A call with three items has failed at the third, for a product that does
\* not exist, and the two items before it are in the committed rows.
C17_Witness ==
    /\ Len(ops) >= 1
    /\ ops[1].failed = 3
    /\ ops[1].items_data[3].product_id \notin Ids(db, "products")
    /\ \A n \in 1..2 : \E it \in db.order_items :
         it.id = ops[1].first + n - 1 /\ it.order_id = ops[1].id

\* C15: whenever main has returned or re-raised, on the path without a
\* failure and on every path with one, the session is closed and no
\* transaction is open on its connection; and the statements sent on that
\* connection end with the COMMIT or ROLLBACK that ended the last one.
C15_SessionReleased ==
    pc \in {"done", "raised"} =>
      /\ ~sessOpen
      /\ ~txOpen
      /\ log # << >> => log[Len(log)].op \in {"COMMIT", "ROLLBACK"}

\* main has re-raised the failure of a demonstration's query, which came
\* after populate_sample_data had committed and while a transaction was open:
\* the last statement is the ROLLBACK of session.close().
C15_Witness ==
    /\ pc = "raised"
    /\ ~sessOpen
    /\ \E n \in DOMAIN log : log[n].op = "COMMIT" /\ log[n].ok
    /\ log[Len(log)].op = "ROLLBACK"
    /\ log[Len(log) - 1].op = "SELECT" /\ ~log[Len(log) - 1].ok

\* C16, as claimed: a session serves one request. The session that is open
\* when a request begins is not the one the request before it used: that one
\* was closed, with its transaction, when its request ended.
C16_SessionPerRequest ==
    [][(RequestOf' # RequestOf /\ RequestOf # "main" /\ RequestOf' # "main")
         => (~sessOpen' /\ ~txOpen')]_vars

\* The sum of line_total over the pending OrderItem objects of s.
RECURSIVE SumLineTotals(_)
SumLineTotals(s) ==
    IF s = << >> THEN 0
    ELSE LET o == ItemObject(Head(s).row)
         IN line_total(o.quantity, o.unit_price, o.discount_percent)
              + SumLineTotals(Tail(s))

\* C18: every line_total read is quantity * unit_price * (1 - discount/100)
\* (here times 100 * 100), and quantity * unit_price when discount_percent is
\* None; and when populate_sample_data has added the items of an order, the
\* total it has computed is the sum of line_total over those items.
C18_LineTotal ==
    /\ \A n \in DOMAIN ops :
         LET it == ops[n].item
         IN ops[n].val =
              IF it.discount_percent = << >>
                THEN it.quantity * it.unit_price * 100
                ELSE it.quantity * it.unit_price * (100 - it.discount_percent[1])
    /\ pc = "set_total" =>
         total = SumLineTotals(OfMapper("order_items", new))

\* line_total has been read on an item without a discount_percent and on the
\* sample item that has a 10% discount.
C18_Witness ==
    /\ Len(ops) = 2
    /\ ops[1].item.discount_percent = << >> /\ ops[1].val > 0
    /\ ops[2].item = [quantity |-> 1, unit_price |-> 7999, discount_percent |-> << 10 >>]

Commits == {n \in DOMAIN log : log[n].op = "COMMIT"}

OkInserts(tbl, n) ==
    Cardinality({m \in 1..(n - 1) : log[m].op = "INSERT" /\ log[m].tbl = tbl /\ log[m].ok})

\* C19: populate_sample_data sends at most one COMMIT, after every INSERT
\* and UPDATE of the sample rows; as long as no COMMIT has succeeded (a
\* statement before it failed, or the COMMIT itself) the committed store
\* holds no row at all; and once it has succeeded the store holds 5
\* manufacturers, 6 categories, 11 products, 5 orders and 9 order items.
C19_PopulateCommitsOnce ==
    /\ Cardinality(Commits) <= 1
    /\ \A n \in Commits :
         /\ \A m \in DOMAIN log : log[m].op \in {"INSERT", "UPDATE"}
                                    /\ log[m].tbl # "products" => m < n
         /\ OkInserts("manufacturers", n) = 5
         /\ OkInserts("categories", n) = 6
         /\ OkInserts("products", n) = 11
         /\ OkInserts("orders", n) = 5
         /\ OkInserts("order_items", n) = 9
    /\ (~\E n \in Commits : log[n].ok) => db = EmptyDb
    /\ (\E n \in Commits : log[n].ok) =>
         /\ Ids(db, "manufacturers") = 1..5
         /\ Ids(db, "categories") = 1..6
         /\ Ids(db, "products") = 1..11
         /\ Ids(db, "orders") = 1..5
         /\ Ids(db, "order_items") = 1..9
         /\ \A t \in Tables : Cardinality(db[t]) = Cardinality(Ids(db, t))

\* main has re-raised the failure of the last item's INSERT, sent by the
\* flush of session.commit() after every other sample row had been written.
C19_Witness ==
    /\ pc = "raised"
    /\ Commits = {}
    /\ \E n \in DOMAIN log :
         /\ IsItemInsert(n) /\ ~log[n].ok
         /\ OkInserts("order_items", n) = 8
         /\ OkInserts("products", n) = 11

\* C20: no step of good_patterns_demo changes the committed rows, and its
\* queries change nothing in its transaction either; when it has returned,
\* the session's transaction is over and the store is as it was when the
\* demonstration began; and since populate_sample_data committed, every
\* product's quantity_in_stock is the sample data's.
C20_GoodPatternsRolledBack ==
    /\ RequestOf = "good_patterns_demo" => db = BaseBegun
    /\ (RequestOf = "good_patterns_demo" /\ pc # "rollback") => CurTx = db
    /\ pc = "n1_query" => (~txOpen /\ tx = db /\ db = dbAtBegin)
    /\ (\E n \in Commits : log[n].ok) =>
         \A r \in db.products : r.qty = ProductData[r.id].qty

\* good_patterns_demo has returned after its bulk update changed three rows
\* and was rolled back.
C20_Witness ==
    /\ pc = "n1_query"
    /\ count = 3
    /\ log[Len(log)].op = "ROLLBACK"
    /\ log[Len(log) - 1].op = "UPDATE" /\ log[Len(log) - 1].ok

\* What the flush or commit that is about to run gives when the store fails
\* nothing for a reason of its own.
FlushUnfaulted ==
    RunPlan(FlushPlan(new, dirty), 1, NoFault,
            [t |-> CurTx, seq |-> seq, ident |-> ident, log |-> LogBegun,
             err |-> "none"])

\* C21: on the store create_database has just recreated, the n-th
\* manufacturer of the list gets id n (1..5) and the n-th product id n
\* (1..11); every manufacturer INSERT comes before every product INSERT and
\* all eleven products are inserted before any order item; a pending or
\* inserted product's manufacturer_id (1..5 or None) and a pending or
\* inserted item's product_id (1..10) name a row that is already in the
\* transaction; and no flush is refused by a constraint of the store.
C21_HardCodedKeysResolve ==
    /\ \A o \in DOMAIN ident :
         o[1] \in {"manufacturers", "products"} => ident[o] = o[2]
    /\ \A r \in CurTx.manufacturers :
         r.id \in 1..5 /\ r.name = ManufacturerData[r.id].name
    /\ \A r \in CurTx.products :
         /\ r.id \in 1..11 /\ r.sku = ProductData[r.id].sku
         /\ r.mfg = ProductData[r.id].mfg
         /\ r.mfg # NULL => (r.mfg \in 1..5 /\ r.mfg \in Ids(CurTx, "manufacturers"))
    /\ \A it \in CurTx.order_items :
         it.product_id \in 1..10 /\ it.product_id \in Ids(CurTx, "products")
    /\ \A n \in DOMAIN new :
         /\ new[n].obj[1] = "products" =>
              (new[n].row.mfg = NULL \/ new[n].row.mfg \in Ids(CurTx, "manufacturers"))
         /\ new[n].obj[1] = "order_items" =>
              new[n].row.product_id \in Ids(CurTx, "products")
    /\ \A b \in DOMAIN log :
         /\ (log[b].op = "INSERT" /\ log[b].tbl = "products") =>
              /\ OkInserts("manufacturers", b) = 5
              /\ log[b].id = OkInserts("products", b) + 1
         /\ (log[b].op = "INSERT" /\ log[b].tbl = "manufacturers") =>
              log[b].id = OkInserts("manufacturers", b) + 1
         /\ IsItemInsert(b) => OkInserts("products", b) = 11
    /\ pc \in {"flush_electronics", "flush_categories", "flush_products",
               "order_flush", "commit"} => FlushUnfaulted.err = "none"

\* Every sample row has been inserted: the item of product 10 is in the
\* transaction, and product 10 is a product of manufacturer 5.
C21_Witness ==
    /\ Cardinality(CurTx.order_items) = 9
    /\ \E it \in CurTx.order_items :
         /\ it.product_id = 10
         /\ Row(CurTx, "products", 10).mfg = 5
         /\ Row(CurTx, "manufacturers", 5).name = "Pacific Goods Co"

====
